---- MODULE Spec2Model ----
(***************************************************************************)
(* Model of the IKB sports-statistics search plugin                        *)
(* (src/plugins/ikb/index.ts): the IKB_SEARCH action's validate predicate  *)
(* and handler, the query interpreter (date and sport extraction), the     *)
(* fetch / memorize / format pipeline and the three view formatters.       *)
(*                                                                         *)
(* Strings are sequences of one-character strings, so that substring       *)
(* search, lower-casing, trimming and the date pattern are computed as the *)
(* code computes them.  JavaScript values that may be undefined are        *)
(* records tagged with a field t.  What the host computes (the rendering   *)
(* of a date in its locale and time zone) is kept as an element of the     *)
(* string that names the call.                                             *)
(*                                                                         *)
(* The helpers imported from ../../common/utils.ts (validateSearchQuery,   *)
(* handleApiError, formatSearchResults, createRateLimiter, validateApiKey) *)
(* are not part of the source at hand; they are modelled from the          *)
(* specification's collaborator contracts.                                 *)
(***************************************************************************)
EXTENDS Integers, Sequences, FiniteSets, Bags, TLC

VARIABLES
    config,     \* this.config of the plugin instance
    limiter,    \* this.rateLimiter: the fixed-window counter
    now,        \* the clock: milliseconds since 00:00 UTC of EpochDay0
    inv,        \* the handler invocations in flight: a bag of invocations
    workload    \* what the host sends in this run: "rich" or "overlap"

vars == <<config, limiter, now, inv, workload>>

(***************************************************************************)
(* An invocation in flight is a record of the handler's position and       *)
(* locals:                                                                 *)
(*   pc                position (the await it is suspended at, "returned") *)
(*   text              message.content.text                                *)
(*   query, date, sport, data, formattedContent     the handler's locals   *)
(*   result            what the handler returned                           *)
(*   escaped           an error propagated out of the handler              *)
(*   trace             its collaborator calls and their outcomes, in order *)
(* The handler has no state of its own besides these; invocations share    *)
(* the limiter and the configuration only.  Invocations that are equal in  *)
(* every field are interchangeable, hence a bag.                           *)
(***************************************************************************)

-----------------------------------------------------------------------------
(* Bounds of the model *)

\* longest array of game records a response carries
MaxGames == 2
\* invocations in flight at once in the overlapping workload
MaxInFlight == 2
\* messages the host sends in a burst
MaxBurst == 3
\* number of clock ticks the model lets pass
MaxTicks == 1
\* milliseconds one clock tick advances the clock by
TickMs == 60000
\* the epoch day (days since 1970-01-01) on which the model starts: 2024-12-31
EpochDay0 == 20088
\* the clock at construction, in ms since 00:00 UTC of EpochDay0 (23:59:00)
StartMs == 86340000
\* number of fragments a text of the interpreter specification is built from
MaxFrags == 3
\* longest run of unconstrained players before the padding block
MaxEdge == 2
\* longest run of unconstrained players after the padding block
MaxTail == 1
\* longest padding block of identical players in a players list
MaxPad == 10

(* Program constants *)

\* createRateLimiter(60, 60000)
RateLimitMax == 60
RateLimitWindowMs == 60000
\* .slice(0, 10)
TopPlayers == 10
\* DEFAULT_CONFIG.maxResults
DefaultMaxResults == 5

-----------------------------------------------------------------------------
(* JavaScript values *)

Undefined == [t |-> "undefined"]
Num(n) == [t |-> "number", v |-> n]
Arr(s) == [t |-> "array", items |-> s]
Str(s) == [t |-> "string", chars |-> s]

\* x || 0 for a number or undefined x
OrZero(x) == IF x.t = "number" THEN x.v ELSE 0

-----------------------------------------------------------------------------
(* Strings *)

UpperLetters == <<"A","B","C","D","E","F","G","H","I","J","K","L","M",
                  "N","O","P","Q","R","S","T","U","V","W","X","Y","Z">>
LowerLetters == <<"a","b","c","d","e","f","g","h","i","j","k","l","m",
                  "n","o","p","q","r","s","t","u","v","w","x","y","z">>
Digits == <<"0","1","2","3","4","5","6","7","8","9">>

IsDigit(c) == \E i \in 1..Len(Digits) : Digits[i] = c

LowerChar(c) ==
    IF \E i \in 1..26 : UpperLetters[i] = c
    THEN LowerLetters[CHOOSE i \in 1..26 : UpperLetters[i] = c]
    ELSE c

UpperChar(c) ==
    IF \E i \in 1..26 : LowerLetters[i] = c
    THEN UpperLetters[CHOOSE i \in 1..26 : LowerLetters[i] = c]
    ELSE c

\* String.prototype.toLowerCase / toUpperCase
toLowerCase(s) == [i \in 1..Len(s) |-> LowerChar(s[i])]
toUpperCase(s) == [i \in 1..Len(s) |-> UpperChar(s[i])]

\* String.prototype.includes
includes(s, sub) ==
    \E i \in 1..(Len(s) - Len(sub) + 1) : SubSeq(s, i, i + Len(sub) - 1) = sub

IsSpace(c) == c = " "

\* String.prototype.trim (the space is the only white space of the texts here)
trim(s) ==
    IF \A i \in 1..Len(s) : IsSpace(s[i])
    THEN <<>>
    ELSE LET first == CHOOSE i \in 1..Len(s) :
                          /\ ~IsSpace(s[i])
                          /\ \A j \in 1..(i - 1) : IsSpace(s[j])
             last == CHOOSE i \in 1..Len(s) :
                          /\ ~IsSpace(s[i])
                          /\ \A j \in (i + 1)..Len(s) : IsSpace(s[j])
         IN  SubSeq(s, first, last)

\* the decimal digits of a natural number
RECURSIVE NatStr(_)
NatStr(n) ==
    IF n < 10 THEN <<Digits[n + 1]>>
    ELSE Append(NatStr(n \div 10), Digits[(n % 10) + 1])

\* Number.prototype.toString of an integer
NumStr(n) == IF n < 0 THEN <<"-">> \o NatStr(0 - n) ELSE NatStr(n)

\* String.prototype.padStart(w, '0')
padStart0(s, w) == [i \in 1..(IF Len(s) < w THEN w - Len(s) ELSE 0) |-> "0"] \o s

kUndefined == <<"u","n","d","e","f","i","n","e","d">>

\* ${x} in a template literal
Show(x) ==
    CASE x.t = "number" -> NumStr(x.v)
      [] x.t = "string" -> x.chars
      [] OTHER          -> kUndefined

\* Array.prototype.join
RECURSIVE join(_, _)
join(parts, sep) ==
    IF parts = <<>> THEN <<>>
    ELSE IF Len(parts) = 1 THEN parts[1]
    ELSE parts[1] \o sep \o join(Tail(parts), sep)

\* the decimal digits of n, left-padded with zeros to width w
RECURSIVE PadDigits(_, _)
PadDigits(n, w) ==
    IF w = 0 THEN <<>>
    ELSE Append(PadDigits(n \div 10, w - 1), Digits[(n % 10) + 1])

-----------------------------------------------------------------------------
(* Query interpreter *)

\* /\d{4}-\d{2}-\d{2}/ matching at position i of s
DateAt(s, i) ==
    /\ i + 9 <= Len(s)
    /\ \A k \in {0, 1, 2, 3, 5, 6, 8, 9} : IsDigit(s[i + k])
    /\ s[i + 4] = "-"
    /\ s[i + 7] = "-"

\* Date.prototype.toISOString().split('T')[0] of the instant ms milliseconds
\* after 00:00 UTC of EpochDay0 (years 0000..9999)
formatDate(ms) ==
    LET z    == EpochDay0 + (ms \div 86400000) + 719468
        era  == z \div 146097
        doe  == z - era * 146097
        yoe  == (doe - (doe \div 1460) + (doe \div 36524) - (doe \div 146096)) \div 365
        doy  == doe - (365 * yoe + (yoe \div 4) - (yoe \div 100))
        mp   == (5 * doy + 2) \div 153
        d    == doy - ((153 * mp + 2) \div 5) + 1
        m    == IF mp < 10 THEN mp + 3 ELSE mp - 9
        y    == yoe + era * 400 + (IF m <= 2 THEN 1 ELSE 0)
    IN  PadDigits(y, 4) \o <<"-">> \o PadDigits(m, 2) \o <<"-">> \o PadDigits(d, 2)

\* the first match of the date pattern, or the current date
extractDateFromQuery(q, clock) ==
    IF \E i \in 1..Len(q) : DateAt(q, i)
    THEN LET i == CHOOSE j \in 1..Len(q) :
                      DateAt(q, j) /\ \A k \in 1..(j - 1) : ~DateAt(q, k)
         IN  SubSeq(q, i, i + 9)
    ELSE formatDate(clock)

kNfl == <<"n","f","l">>
kNba == <<"n","b","a">>
kFootball == <<"f","o","o","t","b","a","l","l">>
kBasketball == <<"b","a","s","k","e","t","b","a","l","l">>

\* faulty variant: the nba keywords are looked for first
extractSportFromQuery_NbaFirst(q) ==
    LET lowerQuery == toLowerCase(q)
    IN  IF includes(lowerQuery, kNba) \/ includes(lowerQuery, kBasketball) THEN kNba
        ELSE IF includes(lowerQuery, kNfl) \/ includes(lowerQuery, kFootball) THEN kNfl
        ELSE kNba

extractSportFromQuery(q) ==
    LET lowerQuery == toLowerCase(q)
    IN  IF includes(lowerQuery, kNfl) \/ includes(lowerQuery, kFootball) THEN kNfl
        ELSE IF includes(lowerQuery, kNba) \/ includes(lowerQuery, kBasketball) THEN kNba
        ELSE kNba

-----------------------------------------------------------------------------
(* Game records and the three view formatters *)

\* a formatter either throws (a TypeError on a missing field) or returns a
\* string
Threw == [threw |-> TRUE, text |-> <<>>]
Rendered(s) == [threw |-> FALSE, text |-> s]

(***************************************************************************)
(* new Date(x).toLocaleDateString() is computed by the host: which strings *)
(* its date parser reads as dates, in which time zone the instant falls on *)
(* which day, and how its locale writes the day, are the host's, not the   *)
(* plugin's.  The model does not compute it: the rendered date is one      *)
(* element of the text, standing for whatever the host renders for x.      *)
(***************************************************************************)
toLocaleDateString(x) == <<[t |-> "localeDate", of |-> x]>>

\* x.toFixed(1) of a whole number
toFixed1(x) == NumStr(x.v) \o <<".","0">>

\* `Q${q.number}: ${q.awayScore}-${q.homeScore}`
quarterLine(q) ==
    <<"Q">> \o Show(q.number) \o <<":"," ">> \o Show(q.awayScore) \o <<"-">> \o Show(q.homeScore)

\* reading game.quarters of a missing game, or mapping missing quarters,
\* throws a TypeError; any other missing field is rendered as 'undefined'
formatGameSummary(d) ==
    IF d.game.t = "undefined" THEN Threw
    ELSE IF d.game.quarters.t # "array" THEN Threw
    ELSE LET game == d.game
             quarters == join([i \in 1..Len(game.quarters.items) |->
                                  quarterLine(game.quarters.items[i])], <<","," ">>)
         IN  Rendered(Show(game.awayTeam) \o <<" ">> \o Show(game.awayTeamScore)
                        \o <<" ","@"," ">> \o Show(game.homeTeam) \o <<" ">>
                        \o Show(game.homeTeamScore) \o <<"\n">>
                        \o <<"D","a","t","e",":"," ">> \o toLocaleDateString(game.dateTime) \o <<"\n">>
                        \o <<"Q","u","a","r","t","e","r"," ","S","c","o","r","e","s",":"," ">> \o quarters \o <<"\n">>
                        \o <<"S","t","a","t","u","s",":"," ">> \o Show(game.status) \o <<"\n">>
                        \o <<"S","t","a","d","i","u","m",":"," ">> \o Show(game.stadium))

\* the block of one team
teamBlock(team) ==
    Show(team.name) \o <<" ","(">> \o Show(team.abbreviation) \o <<")","\n">>
        \o <<"S","c","o","r","e",":"," ">> \o Show(team.score) \o <<"\n">>
        \o <<"F","G","%",":"," ">> \o toFixed1(team.fieldGoalsPercentage)
        \o <<"%",","," ","3","P","%",":"," ">> \o toFixed1(team.threePointersPercentage) \o <<"%","\n">>
        \o <<"R","e","b","o","u","n","d","s",":"," ">> \o Show(team.rebounds)
        \o <<","," ","A","s","s","i","s","t","s",":"," ">> \o Show(team.assists) \o <<"\n">>
        \o <<"S","t","e","a","l","s",":"," ">> \o Show(team.steals)
        \o <<","," ","B","l","o","c","k","s",":"," ">> \o Show(team.blockedShots)

\* mapping missing teams throws a TypeError, and so does .toFixed of a
\* percentage that is not a number
formatTeamStats(d) ==
    IF d.teams.t # "array" THEN Threw
    ELSE LET teams == d.teams.items
         IN  IF \E i \in 1..Len(teams) :
                    \/ teams[i].fieldGoalsPercentage.t # "number"
                    \/ teams[i].threePointersPercentage.t # "number"
             THEN Threw
             ELSE Rendered(join([i \in 1..Len(teams) |-> teamBlock(teams[i])],
                                <<"\n","\n">>))

\* .filter(p => p.played)
RECURSIVE filterPlayed(_)
filterPlayed(ps) ==
    IF ps = <<>> THEN <<>>
    ELSE IF Head(ps).played THEN <<Head(ps)>> \o filterPlayed(Tail(ps))
    ELSE filterPlayed(Tail(ps))

\* faulty variant: the comparator with its operands swapped
comparePlayers_Ascending(a, b) == OrZero(a.fantasyPoints) - OrZero(b.fantasyPoints)

\* (a, b) => (b.fantasyPoints || 0) - (a.fantasyPoints || 0)
comparePlayers(a, b) == OrZero(b.fantasyPoints) - OrZero(a.fantasyPoints)

\* Array.prototype.sort is stable: x, which follows every element of sorted
\* in the input, goes behind the elements that do not compare after it
RECURSIVE insertSorted(_, _)
insertSorted(sorted, x) ==
    IF sorted = <<>> THEN <<x>>
    ELSE IF comparePlayers(Head(sorted), x) <= 0
         THEN <<Head(sorted)>> \o insertSorted(Tail(sorted), x)
         ELSE <<x>> \o sorted

RECURSIVE sortPlayers(_)
sortPlayers(ps) ==
    IF ps = <<>> THEN <<>>
    ELSE insertSorted(sortPlayers(SubSeq(ps, 1, Len(ps) - 1)), ps[Len(ps)])

\* faulty variant: no truncation
slice_NoLimit(s, n) == s

\* .slice(0, n)
slice(s, n) == SubSeq(s, 1, IF Len(s) < n THEN Len(s) ELSE n)

\* faulty variant: the participation filter left out
topPlayers_NoFilter(ps) == slice(sortPlayers(ps), TopPlayers)

\* data.players.filter(...).sort(...).slice(0, 10)
topPlayers(ps) == slice(sortPlayers(filterPlayed(ps)), TopPlayers)

\* the block of one listed player
playerBlock(player) ==
    LET minutes  == Show(player.minutes) \o <<":">>
                        \o padStart0(Show(player.seconds), 2)
        shooting == Show(player.fieldGoalsMade) \o <<"/">>
                        \o Show(player.fieldGoalsAttempted) \o <<" ","F","G",","," ">>
                        \o Show(player.threePointersMade) \o <<"/">>
                        \o Show(player.threePointersAttempted) \o <<" ","3","P">>
    IN  Show(player.name) \o <<" ","(">> \o Show(player.position) \o <<")"," ","-"," ">>
            \o minutes \o <<" ","m","i","n","\n">>
            \o Show(player.points) \o <<" ","P","T","S",","," ">> \o Show(player.rebounds)
            \o <<" ","R","E","B",","," ">> \o Show(player.assists) \o <<" ","A","S","T","\n">>
            \o shooting

\* filtering missing players throws a TypeError, and so does .toString of
\* the missing seconds of a player that is listed
formatPlayerStats(d) ==
    IF d.players.t # "array" THEN Threw
    ELSE LET top == topPlayers(d.players.items)
         IN  IF \E i \in 1..Len(top) : top[i].seconds.t = "undefined"
             THEN Threw
             ELSE Rendered(join([i \in 1..Len(top) |-> playerBlock(top[i])],
                                <<"\n","\n">>))

-----------------------------------------------------------------------------
(* Collaborators from ../../common/utils.ts *)

\* createRateLimiter(max, window): a counter over a fixed window
createRateLimiter(clock) == [count |-> 0, windowStart |-> clock]

\* checkLimit(): true = allowed, and the call is recorded
checkLimit(l, clock) ==
    LET cur == IF clock - l.windowStart >= RateLimitWindowMs
               THEN [count |-> 0, windowStart |-> clock]
               ELSE l
    IN  IF cur.count < RateLimitMax
        THEN [allowed |-> TRUE, limiter |-> [cur EXCEPT !.count = @ + 1]]
        ELSE [allowed |-> FALSE, limiter |-> cur]

\* validateSearchQuery(text): the cleaned query, or a ValidationError
validateSearchQuery(t) ==
    IF trim(t) = <<>>
    THEN [threw |-> TRUE, value |-> <<>>]
    ELSE [threw |-> FALSE, value |-> trim(t)]

\* handleApiError(error): any error becomes { success: false, response }
handleApiError(error) ==
    [returned |-> TRUE, success |-> FALSE,
     response |-> [t |-> "string", formatter |-> "handleApiError", of |-> error]]

\* formatSearchResults(results): the results as one string
formatSearchResults(results) ==
    [t |-> "string", formatter |-> "formatSearchResults", of |-> results]

-----------------------------------------------------------------------------
(* Plugin construction *)

DEFAULT_CONFIG == [maxResults |-> DefaultMaxResults, searchType |-> "game"]

\* this.config = { ...DEFAULT_CONFIG, ...config }: a key the caller's config
\* carries overrides the default (the configurations here carry an API key
\* that validateApiKey accepts)
Construct(c) ==
    [maxResults |-> DEFAULT_CONFIG.maxResults,
     searchType |-> IF c.searchType = "absent" THEN DEFAULT_CONFIG.searchType
                    ELSE c.searchType,
     filters    |-> c.filters]

\* the filters of the default export: nba and the date of construction
ExportedFilters == [sport |-> kNba, date |-> formatDate(StartMs)]

OtherFilters == [sport |-> kNfl, date |-> <<"2","0","2","4","-","0","1","-","0","1">>]

\* the configurations a plugin is constructed with: every view mode, one not
\* set and one the switch does not know, and filters other than the default
\* export's
Configs ==
    [searchType : {"absent", "game", "teams", "players", "summary"},
     filters    : {ExportedFilters}]
        \cup {[searchType |-> "absent", filters |-> OtherFilters]}


-----------------------------------------------------------------------------
(* What the environment supplies *)

dDec15 == <<"2","0","2","4","-","1","2","-","1","5">>
dBad == <<"2","0","2","4","-","1","3","-","4","0">>

kStats == <<"s","t","a","t","s">>

\* message.content.text of the invocations
MsgTexts ==
    { <<>>,
      <<" ", " ">>,
      kStats,
      <<" ","N","F","L"," ">> \o dDec15,
      <<"F","o","o","t","b","a","l","l"," ">> \o kNba,
      kBasketball \o <<" ">> \o dBad \o <<" ">> \o dDec15 }

\* a player record with the fields the players view reads
Player(name, position, played, seconds, fantasyPoints) ==
    [name |-> Str(name), position |-> Str(position), played |-> played,
     minutes |-> Num(31), seconds |-> seconds, points |-> Num(22),
     rebounds |-> Num(7), assists |-> Num(4),
     fieldGoalsMade |-> Num(8), fieldGoalsAttempted |-> Num(15),
     threePointersMade |-> Num(2), threePointersAttempted |-> Num(6),
     fantasyPoints |-> fantasyPoints]

\* a team record with the fields the teams view reads
Team(name, abbreviation, score, fg, tp) ==
    [name |-> Str(name), abbreviation |-> Str(abbreviation), score |-> Num(score),
     fieldGoalsPercentage |-> fg, threePointersPercentage |-> tp,
     rebounds |-> Num(44), assists |-> Num(25), steals |-> Num(8),
     blockedShots |-> Num(5)]

\* a game object with the fields the game view reads
Game(quarters) ==
    [t |-> "object",
     awayTeam |-> Str(<<"B","O","S">>), awayTeamScore |-> Num(35),
     homeTeam |-> Str(<<"L","A","L">>), homeTeamScore |-> Num(38),
     dateTime |-> Str(dDec15 \o <<"T","1","9",":","3","0",":","0","0","Z">>),
     quarters |-> quarters,
     status |-> Str(<<"F","i","n","a","l">>), stadium |-> Undefined]

GoodPlayers ==
    << Player(<<"T","a","t","u","m">>, <<"F">>, TRUE,  Num(5),  Undefined),
       Player(<<"B","r","o","w","n">>, <<"G">>, FALSE, Undefined, Num(50)),
       Player(<<"D","a","v","i","s">>, <<"C">>, TRUE,  Num(42), Num(30)) >>

\* a complete record
GoodGame ==
    [game    |-> Game(Arr(<< [number |-> Num(1), awayScore |-> Num(20), homeScore |-> Num(18)],
                             [number |-> Num(2), awayScore |-> Num(15), homeScore |-> Num(20)] >>)),
     teams   |-> Arr(<< Team(<<"C","e","l","t","i","c","s">>, <<"B","O","S">>, 35, Num(45), Num(38)),
                        Team(<<"L","a","k","e","r","s">>, <<"L","A","L">>, 38, Num(50), Num(41)) >>),
     players |-> Arr(GoodPlayers)]

\* a record with gaps: no quarters, a team without its three-point
\* percentage, a player who played without seconds
SparseGame ==
    [game    |-> Game(Undefined),
     teams   |-> Arr(<< Team(<<"C","e","l","t","i","c","s">>, <<"B","O","S">>, 35, Num(45), Undefined) >>),
     players |-> Arr(<< Player(<<"T","a","t","u","m">>, <<"F">>, TRUE, Undefined, Num(12)) >>)]

\* a record without game, teams and players
BareGame == [game |-> Undefined, teams |-> Undefined, players |-> Undefined]

RECURSIVE SeqsUpTo(_, _)
SeqsUpTo(S, n) ==
    IF n = 0 THEN {<<>>}
    ELSE LET shorter == SeqsUpTo(S, n - 1)
         IN  shorter \cup {Append(s, x) : s \in shorter, x \in S}

\* the parsed bodies of a 2xx response: { data: [...] } with no record, with
\* a first record of each kind followed by complete ones, or without data
Bodies ==
    {[data |-> Arr(<<>>)], [data |-> Arr(<<BareGame>>)], [data |-> Undefined]}
        \cup {[data |-> Arr(<<g>> \o [i \in 1..k |-> GoodGame])] :
                  g \in {GoodGame, SparseGame}, k \in 0..(MaxGames - 1)}

\* how the fetch settles: rejected, a non-2xx response, or a 2xx response
FetchOutcomes ==
    {[kind |-> "rejected"], [kind |-> "response", ok |-> FALSE],
     [kind |-> "response", ok |-> TRUE]}

\* how response.json() settles
JsonOutcomes == {[parsed |-> FALSE, body |-> Undefined]}
                    \cup {[parsed |-> TRUE, body |-> b] : b \in Bodies}

(***************************************************************************)
(* The host dispatches handler invocations without waiting for earlier     *)
(* ones.  Two workloads keep the reachable states finite and few:          *)
(*   "sequential"  any number of messages, every text, every body and      *)
(*                 every configuration, each message sent when the         *)
(*                 previous invocation has returned;                       *)
(*   "burst"       up to MaxBurst messages, up to MaxInFlight invocations  *)
(*                 in flight at once, on the default export, starting      *)
(*                 either fresh or with the limiter one call short of its  *)
(*                 maximum.                                                *)
(***************************************************************************)
Workloads == {"sequential", "burst"}

InFlightOf(kind) == IF kind = "burst" THEN MaxInFlight ELSE 1

TextsOf(kind) ==
    IF kind = "burst"
    THEN {<<" ", " ">>, kStats, <<" ","N","F","L"," ">> \o dDec15}
    ELSE MsgTexts

JsonOutcomesOf(kind) ==
    IF kind = "burst"
    THEN {[parsed |-> FALSE, body |-> Undefined],
          [parsed |-> TRUE, body |-> [data |-> Arr(<<>>)]],
          [parsed |-> TRUE, body |-> [data |-> Arr(<<GoodGame>>)]]}
    ELSE JsonOutcomes
-----------------------------------------------------------------------------
(* The IKB_SEARCH handler, one segment per stretch between two awaits *)

NoResult == [returned |-> FALSE, success |-> FALSE, response |-> Undefined]

RateLimitResult ==
    [returned |-> TRUE, success |-> FALSE,
     response |-> Str(<<"R","a","t","e"," ","l","i","m","i","t"," ","e","x","c","e","e","d","e","d","."," ","P","l","e","a","s","e"," ","t","r","y"," ","a","g","a","i","n"," ","l","a","t","e","r",".">>)]

Ev(op) == [op |-> op]

urlPrefix == <<"h","t","t","p","s",":","/","/","a","p","i",".","i","k","b",
               ".","g","g","/","a","i","/">>

url(sp, dt) == urlPrefix \o sp \o <<"/">> \o dt

\* faulty variant: the catch block rethrows
Catch_Rethrow(error) == [result |-> NoResult, escaped |-> TRUE, events |-> <<>>]

\* catch (error) { return handleApiError(error); }
Catch(error) ==
    [result |-> handleApiError(error), escaped |-> FALSE,
     events |-> <<[op |-> "handleApiError", error |-> error]>>]

\* the locals and the position a segment leaves behind
Step(p, q, dt, sp, l, c, events) ==
    [pc |-> p, query |-> q, date |-> dt, sport |-> sp, limiter |-> l,
     result |-> c.result, escaped |-> c.escaped, events |-> events \o c.events]

Running == [result |-> NoResult, escaped |-> FALSE, events |-> <<>>]
Return(r) == [result |-> r, escaped |-> FALSE, events |-> <<>>]

\* the call of this.rateLimiter.checkLimit() and what it returned
LimitEv(allowed) == [op |-> "checkLimit", allowed |-> allowed]

\* issuing the request of fetchFromAPI
FetchEv(sp, dt) == [op |-> "fetch", url |-> url(sp, dt), method |-> "GET"]

\* faulty variant: the answer of the limiter is not looked at
Entry_IgnoreLimit(t, l, clock) ==
    LET lim == checkLimit(l, clock)
        v   == validateSearchQuery(t)
        dt  == extractDateFromQuery(v.value, clock)
        sp  == extractSportFromQuery(v.value)
    IN  IF v.threw
        THEN Step("returned", <<>>, <<>>, <<>>, lim.limiter, Catch("ValidationError"),
                  <<LimitEv(lim.allowed), Ev("validateSearchQuery")>>)
        ELSE Step("awaitFetch", v.value, dt, sp, lim.limiter, Running,
                  <<LimitEv(lim.allowed), Ev("validateSearchQuery"), FetchEv(sp, dt)>>)

\* faulty variant: the text is validated before the limiter is asked
Entry_ValidateFirst(t, l, clock) ==
    LET lim == checkLimit(l, clock)
        v   == validateSearchQuery(t)
        dt  == extractDateFromQuery(v.value, clock)
        sp  == extractSportFromQuery(v.value)
    IN  IF v.threw
        THEN Step("returned", <<>>, <<>>, <<>>, l, Catch("ValidationError"),
                  <<Ev("validateSearchQuery")>>)
        ELSE IF ~lim.allowed
        THEN Step("returned", <<>>, <<>>, <<>>, lim.limiter, Return(RateLimitResult),
                  <<Ev("validateSearchQuery"), LimitEv(lim.allowed)>>)
        ELSE Step("awaitFetch", v.value, dt, sp, lim.limiter, Running,
                  <<Ev("validateSearchQuery"), LimitEv(lim.allowed), FetchEv(sp, dt)>>)

\* faulty variant: the request is issued for the raw text, unvalidated
Entry_FetchUnvalidated(t, l, clock) ==
    LET lim == checkLimit(l, clock)
        dt  == extractDateFromQuery(t, clock)
        sp  == extractSportFromQuery(t)
    IN  IF ~lim.allowed
        THEN Step("returned", <<>>, <<>>, <<>>, lim.limiter, Return(RateLimitResult),
                  <<LimitEv(lim.allowed)>>)
        ELSE Step("awaitFetch", t, dt, sp, lim.limiter, Running,
                  <<LimitEv(lim.allowed), FetchEv(sp, dt)>>)

\* lines 244-256: the limiter, the validation, the interpretation and the
\* request, up to the await of the fetch
Entry(t, l, clock) ==
    LET lim == checkLimit(l, clock)
        v   == validateSearchQuery(t)
        dt  == extractDateFromQuery(v.value, clock)
        sp  == extractSportFromQuery(v.value)
    IN  IF ~lim.allowed
        THEN Step("returned", <<>>, <<>>, <<>>, lim.limiter, Return(RateLimitResult),
                  <<LimitEv(lim.allowed)>>)
        ELSE IF v.threw
        THEN Step("returned", <<>>, <<>>, <<>>, lim.limiter, Catch("ValidationError"),
                  <<LimitEv(lim.allowed), Ev("validateSearchQuery")>>)
        ELSE Step("awaitFetch", v.value, dt, sp, lim.limiter, Running,
                  <<LimitEv(lim.allowed), Ev("validateSearchQuery"), FetchEv(sp, dt)>>)

\* what a later segment leaves behind: position, parsed body, rendered view
Seg(p, body, content, c, events) ==
    [pc |-> p, data |-> body, formattedContent |-> content,
     result |-> c.result, escaped |-> c.escaped, events |-> events \o c.events]

\* faulty variant: a failed request is issued again
AfterFetch_Retry(r, sp, dt) ==
    IF r.kind = "rejected" \/ ~r.ok
    THEN Seg("awaitFetch", Undefined, <<>>, Running, <<FetchEv(sp, dt)>>)
    ELSE Seg("awaitJson", Undefined, <<>>, Running, <<Ev("json")>>)

\* lines 190-202: the fetch settles; a non-2xx response throws, a 2xx
\* response is handed to response.json()
AfterFetch(r, sp, dt) ==
    IF r.kind = "rejected"
    THEN Seg("returned", Undefined, <<>>, Catch("fetch failed"), <<>>)
    ELSE IF ~r.ok
    THEN Seg("returned", Undefined, <<>>, Catch("IKB API error"), <<>>)
    ELSE Seg("awaitJson", Undefined, <<>>, Running, <<Ev("json")>>)

\* lines 174-183: the record memorizeData builds
Memory(sp, dt, body) ==
    [content |-> [text |-> sp \o <<" ","g","a","m","e"," ","d","a","t","a"," ",
                                   "f","o","r"," ">> \o dt,
                  sport |-> sp, date |-> dt, data |-> body.data],
     roomId |-> "default", userId |-> "system"]

\* lines 202, 256-258, 173-185: the body is parsed and memorizeData asks the
\* runtime for its memory manager
AfterJson(j) ==
    IF ~j.parsed
    THEN Seg("returned", Undefined, <<>>, Catch("SyntaxError"), <<>>)
    ELSE Seg("awaitMemoryManager", j.body, <<>>, Running, <<Ev("getMemoryManager")>>)

\* the formatter the switch on config.searchType selects
formatView(searchType, gameData) ==
    CASE searchType = "game"    -> formatGameSummary(gameData)
      [] searchType = "teams"   -> formatTeamStats(gameData)
      [] searchType = "players" -> formatPlayerStats(gameData)
      [] OTHER                  -> formatGameSummary(gameData)

\* lines 278-294: the one search result and the handler's success value
Success(cfg, sp, dt, content) ==
    LET results == << [title    |-> toUpperCase(sp) \o <<" ","S","t","a","t","s"," ",
                                                         "f","o","r"," ">> \o dt,
                       url      |-> url(sp, dt),
                       snippet  |-> content,
                       score    |-> 1,
                       source   |-> "ikb",
                       metadata |-> [sport |-> sp, date |-> dt,
                                     dataType |-> cfg.searchType]] >>
    IN  [returned |-> TRUE, success |-> TRUE, response |-> formatSearchResults(results)]

\* faulty variant: the first record is rendered without looking at the length
Finish_FormatAlways(cfg, sp, dt, body, events) ==
    IF body.data.t = "undefined" \/ body.data.items = <<>>
    THEN Seg("returned", body, <<>>, Catch("TypeError"),
             events \o <<[op |-> "format", view |-> cfg.searchType]>>)
    ELSE LET r == formatView(cfg.searchType, body.data.items[1])
         IN  IF r.threw
             THEN Seg("returned", body, <<>>, Catch("TypeError"),
                      events \o <<[op |-> "format", view |-> cfg.searchType]>>)
             ELSE Seg("returned", body, r.text, Return(Success(cfg, sp, dt, r.text)),
                      events \o <<[op |-> "format", view |-> cfg.searchType],
                                  Ev("formatSearchResults")>>)

\* lines 260-294: the view of the first record, or '' when there is none
Finish(cfg, sp, dt, body, events) ==
    IF body.data.t = "undefined"
    THEN Seg("returned", body, <<>>, Catch("TypeError"), events)
    ELSE IF Len(body.data.items) > 0
    THEN LET r == formatView(cfg.searchType, body.data.items[1])
         IN  IF r.threw
             THEN Seg("returned", body, <<>>, Catch("TypeError"),
                      events \o <<[op |-> "format", view |-> cfg.searchType]>>)
             ELSE Seg("returned", body, r.text, Return(Success(cfg, sp, dt, r.text)),
                      events \o <<[op |-> "format", view |-> cfg.searchType],
                                  Ev("formatSearchResults")>>)
    ELSE Seg("returned", body, <<>>, Return(Success(cfg, sp, dt, <<>>)),
             events \o <<Ev("formatSearchResults")>>)

CreateMemoryEv(sp, dt, body) ==
    [op |-> "createMemory", memory |-> Memory(sp, dt, body), embed |-> TRUE]

\* faulty variant: createMemory is called and not awaited
AfterGetMemoryManager_Detached(ok, cfg, sp, dt, body) ==
    IF ~ok
    THEN Seg("returned", body, <<>>, Catch("MemoryStoreError"), <<>>)
    ELSE Finish(cfg, sp, dt, body, <<CreateMemoryEv(sp, dt, body)>>)

\* lines 185-186: the memory manager arrives and createMemory is called
AfterGetMemoryManager(ok, cfg, sp, dt, body) ==
    IF ~ok
    THEN Seg("returned", body, <<>>, Catch("MemoryStoreError"), <<>>)
    ELSE Seg("awaitCreateMemory", body, <<>>, Running, <<CreateMemoryEv(sp, dt, body)>>)

\* faulty variant: a rejected createMemory is swallowed
AfterCreateMemory_IgnoreFailure(ok, cfg, sp, dt, body) ==
    Finish(cfg, sp, dt, body, <<>>)

\* lines 186, 258-297: createMemory settles; on success the view is rendered
AfterCreateMemory(ok, cfg, sp, dt, body) ==
    IF ~ok
    THEN Seg("returned", body, <<>>, Catch("MemoryStoreError"), <<>>)
    ELSE Finish(cfg, sp, dt, body, <<>>)

\* faulty variant: the predicate consults the limiter
Validate_ThroughLimiter(t, l, clock) ==
    [ok |-> ~validateSearchQuery(t).threw /\ checkLimit(l, clock).allowed,
     limiter |-> checkLimit(l, clock).limiter]

\* lines 224-235: the action's validate predicate
Validate(t, l, clock) ==
    [ok |-> ~validateSearchQuery(t).threw, limiter |-> l]

-----------------------------------------------------------------------------
(* The plugin as a state machine *)

\* the invocation the handler's first segment s leaves behind for text t
Invocation(t, s) ==
    [pc |-> s.pc, text |-> t, query |-> s.query, date |-> s.date,
     sport |-> s.sport, data |-> Undefined, formattedContent |-> <<>>,
     result |-> s.result, escaped |-> s.escaped, trace |-> s.events]

\* the invocations in flight
InFlight == BagToSet(inv)

Init ==
    /\ workload \in {[kind |-> "sequential", left |-> 0],
                     [kind |-> "burst", left |-> MaxBurst]}
    /\ config \in IF workload.kind = "burst"
                  THEN {Construct([searchType |-> "game", filters |-> ExportedFilters])}
                  ELSE {Construct(c) : c \in Configs}
    /\ limiter \in IF workload.kind = "burst"
                   THEN {createRateLimiter(StartMs),
                         [createRateLimiter(StartMs) EXCEPT !.count = RateLimitMax - 1]}
                   ELSE {createRateLimiter(StartMs)}
    /\ now = StartMs
    /\ inv = EmptyBag

\* the runtime asks the validate predicate about a message
ValidatePredicate ==
    /\ limiter' \in {Validate(t, limiter, now).limiter : t \in TextsOf(workload.kind)}
    /\ UNCHANGED <<config, now, inv, workload>>

\* the runtime invokes the handler on a message, whatever else is in flight
HandlerEntry ==
    \E t \in TextsOf(workload.kind) :
        /\ BagCardinality(inv) < InFlightOf(workload.kind)
        /\ workload.kind = "burst" => workload.left > 0
        /\ LET s == Entry(t, limiter, now)
           IN  /\ inv' = inv (+) SetToBag({Invocation(t, s)})
               /\ limiter' = s.limiter
        /\ workload' = IF workload.kind = "burst"
                       THEN [workload EXCEPT !.left = @ - 1]
                       ELSE workload
        /\ UNCHANGED <<config, now>>

\* a pending call of invocation v settles with outcome o and the handler
\* runs to its next await
Apply(v, o, s) ==
    /\ inv' = (inv (-) SetToBag({v}))
                  (+) SetToBag({[v EXCEPT !.pc = s.pc,
                                          !.data = s.data,
                                          !.formattedContent = s.formattedContent,
                                          !.result = s.result,
                                          !.escaped = s.escaped,
                                          !.trace = v.trace \o <<o>> \o s.events]})
    /\ UNCHANGED <<config, limiter, now, workload>>

FetchSettles ==
    \E v \in InFlight, r \in FetchOutcomes :
        /\ v.pc = "awaitFetch"
        /\ Apply(v, [op |-> "fetchSettled", ok |-> r.kind = "response" /\ r.ok],
                 AfterFetch(r, v.sport, v.date))

JsonSettles ==
    \E v \in InFlight, j \in JsonOutcomesOf(workload.kind) :
        /\ v.pc = "awaitJson"
        /\ Apply(v, [op |-> "jsonSettled", ok |-> j.parsed], AfterJson(j))

GetMemoryManagerSettles ==
    \E v \in InFlight, ok \in BOOLEAN :
        /\ v.pc = "awaitMemoryManager"
        /\ Apply(v, [op |-> "getMemoryManagerSettled", ok |-> ok],
                 AfterGetMemoryManager(ok, config, v.sport, v.date, v.data))

CreateMemorySettles ==
    \E v \in InFlight, ok \in BOOLEAN :
        /\ v.pc = "awaitCreateMemory"
        /\ Apply(v, [op |-> "createMemorySettled", ok |-> ok],
                 AfterCreateMemory(ok, config, v.sport, v.date, v.data))

\* the runtime has taken the result of an invocation that returned
Complete ==
    \E v \in InFlight :
        /\ v.pc = "returned"
        /\ inv' = inv (-) SetToBag({v})
        /\ UNCHANGED <<config, limiter, now, workload>>

\* time passes
Tick ==
    /\ now < StartMs + MaxTicks * TickMs
    /\ now' = now + TickMs
    /\ UNCHANGED <<config, limiter, inv, workload>>

Next ==
    \/ ValidatePredicate
    \/ HandlerEntry
    \/ FetchSettles
    \/ JsonSettles
    \/ GetMemoryManagerSettles
    \/ CreateMemorySettles
    \/ Complete
    \/ Tick

Spec == Init /\ [][Next]_vars

-----------------------------------------------------------------------------
(* The query interpreter on its own: texts built from fragments *)

Fragments ==
    { kNfl, <<"N","F","L">>, <<"n","f">>, <<"l">>,
      kNba, <<"N","b">>, <<"a">>,
      kFootball, <<"B","a","s","k","e","t","b","a","l","l">>,
      <<" ">>, dDec15, <<"2","0","2","4","-","1">>, <<"3","-","4","0">> }

RECURSIVE Concat(_)
Concat(ss) == IF ss = <<>> THEN <<>> ELSE Head(ss) \o Concat(Tail(ss))

\* the texts of up to n fragments
InterpTexts(n) == {Concat(fs) : fs \in SeqsUpTo(Fragments, n)}

\* an invocation at position p with nothing computed yet
Blank(p, t, body) ==
    [pc |-> p, text |-> t, query |-> <<>>, date |-> <<>>, sport |-> <<>>,
     data |-> body, formattedContent |-> <<>>, result |-> NoResult,
     escaped |-> FALSE, trace |-> <<>>]

InitInterp ==
    /\ workload = [kind |-> "interpreter", left |-> 0]
    /\ config = Construct([searchType |-> "game", filters |-> ExportedFilters])
    /\ limiter = createRateLimiter(StartMs)
    /\ now \in {StartMs, StartMs + MaxTicks * TickMs}
    /\ \E t \in InterpTexts(MaxFrags) : inv = SetToBag({Blank("interpret", t, Undefined)})

\* lines 253-254 applied to a text
Interpret ==
    \E v \in InFlight :
        /\ v.pc = "interpret"
        /\ inv' = SetToBag({[v EXCEPT !.pc = "interpreted",
                                      !.query = v.text,
                                      !.date = extractDateFromQuery(v.text, now),
                                      !.sport = extractSportFromQuery(v.text)]})
        /\ UNCHANGED <<config, limiter, now, workload>>

NextInterp == Interpret

SpecInterp == InitInterp /\ [][NextInterp]_vars

-----------------------------------------------------------------------------
(* The players view on its own: lists long enough to be truncated *)

PlayerKinds ==
    [played : BOOLEAN, fantasyPoints : {Undefined, Num(-5), Num(30)}]

PadKind == [played |-> TRUE, fantasyPoints |-> Num(10)]

\* players named by their place in the list; those that did not play have
\* no seconds
Named(kinds) ==
    [i \in 1..Len(kinds) |->
        Player(NatStr(i), <<"G">>, kinds[i].played,
               IF kinds[i].played THEN Num(i) ELSE Undefined,
               kinds[i].fantasyPoints)]

\* no padding, or enough of it to fill the view
PadLengths(pad) == {0} \cup ((TopPlayers - 1)..pad)

\* up to edge players of any kind, a padding block, up to tail players of
\* any kind
PlayerLists(edge, pad, tail) ==
    {Named(a \o [i \in 1..k |-> PadKind] \o b) :
        a \in SeqsUpTo(PlayerKinds, edge),
        k \in PadLengths(pad),
        b \in SeqsUpTo(PlayerKinds, tail)}

\* a list in which the seconds of the player at place n are missing
WithoutSeconds(ps, n) ==
    [i \in 1..Len(ps) |-> IF i = n THEN [ps[i] EXCEPT !.seconds = Undefined] ELSE ps[i]]

InitPlayers ==
    /\ workload = [kind |-> "players", left |-> 0]
    /\ config = Construct([searchType |-> "players", filters |-> ExportedFilters])
    /\ limiter = createRateLimiter(StartMs)
    /\ now = StartMs
    /\ \E ps \in PlayerLists(MaxEdge, MaxPad, MaxTail) : \E n \in {0, 1, Len(ps)} :
          inv = SetToBag({Blank("format", <<>>,
                     [data |-> Arr(<<[GoodGame EXCEPT
                                        !.players = Arr(WithoutSeconds(ps, n))]>>)])})

\* line 271 applied to the first record
FormatPlayers ==
    \E v \in InFlight :
        /\ v.pc = "format"
        /\ LET r == formatView(config.searchType, v.data.data.items[1])
           IN  inv' = SetToBag({[v EXCEPT !.pc = IF r.threw THEN "threw" ELSE "formatted",
                                          !.formattedContent = r.text]})
        /\ UNCHANGED <<config, limiter, now, workload>>

NextPlayers == FormatPlayers

SpecPlayers == InitPlayers /\ [][NextPlayers]_vars

-----------------------------------------------------------------------------
(* Vocabulary of the properties; v is an invocation in flight *)

\* the places of tr at which op was called, or a call of that kind settled
At(tr, op) == {i \in 1..Len(tr) : tr[i].op = op}

Called(v, op) == At(v.trace, op) # {}

\* a call of that kind settled with the given outcome
SettledWith(v, op, ok) == \E i \in At(v.trace, op) : v.trace[i].ok = ok

\* the limiter refused the invocation
Denied(v) == \E i \in At(v.trace, "checkLimit") : ~v.trace[i].allowed

\* the values the error formatter produces
ErrorKinds == {"ValidationError", "fetch failed", "IKB API error", "SyntaxError",
               "MemoryStoreError", "TypeError"}

FormatterFailure(v) == \E e \in ErrorKinds : v.result = handleApiError(e)

\* the text is empty once the white space around it is dropped
RejectedText(v) == \A i \in 1..Len(v.text) : v.text[i] = " "

\* the parsed body carries a data array of length zero
ZeroRecords(v) ==
    /\ v.data # Undefined
    /\ v.data.data.t = "array"
    /\ Len(v.data.data.items) = 0

\* the view of the first record cannot be rendered
ViewFails(v) ==
    /\ v.data # Undefined
    /\ \/ v.data.data.t = "undefined"
       \/ /\ Len(v.data.data.items) > 0
          /\ formatView(config.searchType, v.data.data.items[1]).threw

\* some step of the invocation failed
StepFailed(v) ==
    \/ Called(v, "validateSearchQuery") /\ RejectedText(v)
    \/ SettledWith(v, "fetchSettled", FALSE)
    \/ SettledWith(v, "jsonSettled", FALSE)
    \/ SettledWith(v, "getMemoryManagerSettled", FALSE)
    \/ SettledWith(v, "createMemorySettled", FALSE)
    \/ SettledWith(v, "createMemorySettled", TRUE) /\ ViewFails(v)

\* the snippet of the one search result of a success value
Snippet(v) == v.result.response.of[1].snippet

-----------------------------------------------------------------------------
(* C1: an invocation the rate limiter denies issues no HTTP request, asks   *)
(* for no memory manager, creates no memory, and returns exactly the        *)
(* rate-limit result, whatever else is in flight.                           *)
C1_DeniedShortCircuits ==
    \A v \in InFlight :
        Denied(v) =>
            /\ v.pc = "returned"
            /\ v.result = RateLimitResult
            /\ ~Called(v, "fetch")
            /\ ~Called(v, "getMemoryManager")
            /\ ~Called(v, "createMemory")

C1_Witness ==
    \E v, w \in InFlight :
        /\ Denied(v)
        /\ v.result = RateLimitResult
        /\ ~RejectedText(v)
        /\ w.pc = "awaitCreateMemory"

(* C2: no error escapes the handler: a returned invocation has a result;    *)
(* when a step failed (validation, the fetch, the body's parse, the memory  *)
(* write, the rendering) the result is the error formatter's, with success  *)
(* false; success is true only when no step failed.                         *)
C2_NoErrorEscapes ==
    \A v \in InFlight :
        /\ ~v.escaped
        /\ v.pc = "returned" =>
              /\ v.result.returned
              /\ StepFailed(v) => (FormatterFailure(v) /\ ~v.result.success)
              /\ v.result.success => ~StepFailed(v)

C2_Witness ==
    \E v \in InFlight :
        /\ v.pc = "returned"
        /\ SettledWith(v, "createMemorySettled", TRUE)
        /\ v.data.data.t = "array"
        /\ v.data.data.items # <<>>
        /\ v.data.data.items[1] = SparseGame
        /\ config.searchType = "players"
        /\ FormatterFailure(v)

(* C3: when the validator rejects the text, the invocation returns a        *)
(* failure and issues no HTTP request and no memory-store call; a request   *)
(* is only ever issued after the validation.                                *)
C3_ValidationPrecedesFetch ==
    \A v \in InFlight :
        /\ RejectedText(v) =>
              /\ v.pc = "returned"
              /\ v.result.returned
              /\ ~v.result.success
              /\ ~Called(v, "fetch")
              /\ ~Called(v, "getMemoryManager")
              /\ ~Called(v, "createMemory")
        /\ \A i \in At(v.trace, "fetch") :
              \E j \in At(v.trace, "validateSearchQuery") : j < i

C3_Witness ==
    \E v, w \in InFlight :
        /\ v.pc = "returned"
        /\ RejectedText(v)
        /\ Called(v, "validateSearchQuery")
        /\ FormatterFailure(v)
        /\ w.pc = "awaitFetch"

(* C4: the memory write is awaited: once the fetch succeeded, a failure of  *)
(* getMemoryManager or of createMemory makes the result a failure, and the  *)
(* handler has not returned while a createMemory call is still pending.     *)
C4_MemoryWriteAwaited ==
    \A v \in InFlight :
        v.pc = "returned" =>
            /\ (\/ SettledWith(v, "getMemoryManagerSettled", FALSE)
                \/ SettledWith(v, "createMemorySettled", FALSE)) => ~v.result.success
            /\ Called(v, "createMemory") => Called(v, "createMemorySettled")

C4_Witness ==
    \E v \in InFlight :
        /\ v.pc = "returned"
        /\ SettledWith(v, "jsonSettled", TRUE)
        /\ SettledWith(v, "createMemorySettled", FALSE)
        /\ ~v.result.success

(* C5: the stages of one invocation run in the order interpret, fetch,      *)
(* record, format, each at most once and only after the stages before it    *)
(* succeeded: at most one GET, at most one createMemory and only after a    *)
(* 2xx response whose body parsed, rendering only after createMemory        *)
(* succeeded.                                                               *)
C5_LinearPipeline ==
    \A v \in InFlight :
        LET trace == v.trace
        IN  /\ \A op \in {"validateSearchQuery", "fetch", "json", "getMemoryManager",
                          "createMemory", "format", "formatSearchResults"} :
                  Cardinality(At(trace, op)) <= 1
            /\ \A i \in At(trace, "fetch") :
                  /\ trace[i].method = "GET"
                  /\ \E j \in At(trace, "validateSearchQuery") : j < i
                  /\ ~RejectedText(v)
            /\ \A i \in At(trace, "createMemory") :
                  \E j \in At(trace, "fetchSettled"), k \in At(trace, "jsonSettled") :
                      /\ j < k
                      /\ k < i
                      /\ trace[j].ok
                      /\ trace[k].ok
            /\ \A i \in At(trace, "format") \cup At(trace, "formatSearchResults") :
                  \E j \in At(trace, "createMemorySettled") : j < i /\ trace[j].ok
            /\ \A i \in At(trace, "fetchSettled") \cup At(trace, "jsonSettled")
                          \cup At(trace, "getMemoryManagerSettled")
                          \cup At(trace, "createMemorySettled") :
                  ~trace[i].ok =>
                      /\ v.pc = "returned"
                      /\ \A j \in (i + 1)..Len(trace) : trace[j].op = "handleApiError"

C5_Witness ==
    \E v, w \in InFlight :
        /\ v.pc = "returned"
        /\ v.result.success
        /\ Called(v, "format")
        /\ Cardinality(At(v.trace, "fetch")) = 1
        /\ w.pc = "returned"
        /\ SettledWith(w, "fetchSettled", FALSE)

(* C6 as stated: whenever the fetch succeeded with a data array of length   *)
(* zero, the snippet is the empty string and the handler reports success.   *)
C6_Original ==
    \A v \in InFlight :
        (v.pc = "returned" /\ ZeroRecords(v)) =>
            /\ v.result.success
            /\ Snippet(v) = <<>>

(* C6 as amended: whenever the fetch succeeded with a data array of length  *)
(* zero and the memory write succeeded, the snippet is the empty string and *)
(* the handler reports success, whatever the view mode.                     *)
C6_ZeroRecords ==
    \A v \in InFlight :
        (v.pc = "returned" /\ ZeroRecords(v)
             /\ SettledWith(v, "createMemorySettled", TRUE)) =>
            /\ v.result.success
            /\ v.formattedContent = <<>>
            /\ Snippet(v) = <<>>

C6_Witness ==
    \E v \in InFlight :
        /\ v.pc = "returned"
        /\ ZeroRecords(v)
        /\ config.searchType = "players"
        /\ v.result.success
        /\ Snippet(v) = <<>>

\* the keyword occurs in s, letters compared without regard to case
Mentions(s, kw) ==
    \E i \in 1..Len(s) :
        /\ i + Len(kw) - 1 <= Len(s)
        /\ \A k \in 1..Len(kw) : s[i + k - 1] \in {kw[k], UpperChar(kw[k])}

MentionsNfl(s) == Mentions(s, kNfl) \/ Mentions(s, kFootball)
MentionsNba(s) == Mentions(s, kNba) \/ Mentions(s, kBasketball)

(* C7: the extracted sport is always nfl or nba: nfl when the text mentions *)
(* "nfl" or "football" in any case, also when it mentions "nba" or          *)
(* "basketball" too, and nba otherwise.                                     *)
C7_SportExtraction ==
    \A v \in InFlight :
        v.pc = "interpreted" =>
            /\ v.sport \in {kNfl, kNba}
            /\ MentionsNfl(v.text) => v.sport = kNfl
            /\ ~MentionsNfl(v.text) => v.sport = kNba

C7_Witness ==
    \E v \in InFlight :
        /\ v.pc = "interpreted"
        /\ MentionsNfl(v.text)
        /\ MentionsNba(v.text)
        /\ v.sport = kNfl

\* the text carries a YYYY-MM-DD date
MentionsDate(s) == \E i \in 1..Len(s) : DateAt(s, i)

(* C8: the sport and the date of the request are the configured             *)
(* filters.sport and filters.date unless the text names a sport or a date,  *)
(* and the text's otherwise.                                                *)
C8_FiltersAreDefaults ==
    \A v \in InFlight :
        Called(v, "fetch") =>
            /\ (~MentionsNfl(v.text) /\ ~MentionsNba(v.text))
                  => v.sport = config.filters.sport
            /\ ~MentionsDate(v.text) => v.date = config.filters.date
            /\ MentionsNfl(v.text) => v.sport = kNfl
            /\ (MentionsNba(v.text) /\ ~MentionsNfl(v.text)) => v.sport = kNba
            /\ MentionsDate(v.text) => (includes(v.text, v.date) /\ MentionsDate(v.date))

\* the number a run of decimal digits denotes
RECURSIVE ParseNat(_)
ParseNat(s) ==
    IF s = <<>> THEN 0
    ELSE 10 * ParseNat(SubSeq(s, 1, Len(s) - 1))
             + (CHOOSE k \in 0..9 : Digits[k + 1] = s[Len(s)])

\* fantasy points, a missing value counting as zero
Points(p) == IF p.fantasyPoints = Undefined THEN 0 ELSE p.fantasyPoints.v

\* the places of a rendered players view at which a block begins
BlockStarts(s) ==
    IF s = <<>> THEN {}
    ELSE {1} \cup {i \in 3..Len(s) : s[i - 2] = "\n" /\ s[i - 1] = "\n"}

\* the name a block begins with, read as the player's place in the list
NameAt(s, i) ==
    LET end == CHOOSE j \in i..Len(s) : s[j] = " " /\ \A k \in i..(j - 1) : s[k] # " "
    IN  ParseNat(SubSeq(s, i, end - 1))

\* the places in the list of the players a rendered view lists, in order
Listed(s) ==
    LET starts == BlockStarts(s)
    IN  [n \in 1..Cardinality(starts) |->
            NameAt(s, CHOOSE i \in starts : Cardinality({j \in starts : j < i}) = n - 1)]

(* C9: the players view lists players of the first record that played, in   *)
(* descending order of fantasy points (missing counting as zero), the first *)
(* ten of them: none that did not play, none with fewer points than a later *)
(* one, and no omitted player that played has more points than a listed     *)
(* one.  The view fails only on a record in which a player that played has  *)
(* no seconds.                                                              *)
C9_PlayersView ==
    \A v \in InFlight :
        LET ps == v.data.data.items[1].players.items
            listed == Listed(v.formattedContent)
            names == {listed[i] : i \in 1..Len(listed)}
            playing == {n \in 1..Len(ps) : ps[n].played}
        IN  /\ v.pc = "formatted" =>
                  /\ names \subseteq playing
                  /\ Cardinality(names) = Len(listed)
                  /\ Len(listed) = IF Cardinality(playing) < 10
                                   THEN Cardinality(playing) ELSE 10
                  /\ \A i, j \in 1..Len(listed) :
                        i < j => Points(ps[listed[i]]) >= Points(ps[listed[j]])
                  /\ \A q \in playing \ names, n \in names :
                        Points(ps[q]) <= Points(ps[n])
            /\ v.pc = "threw" => \E n \in playing : ps[n].seconds = Undefined

C9_Witness ==
    \E v \in InFlight :
        /\ v.pc = "formatted"
        /\ LET ps == v.data.data.items[1].players.items
               listed == Listed(v.formattedContent)
               names == {listed[i] : i \in 1..Len(listed)}
           IN  /\ Len(listed) = 10
               /\ \E q \in 1..Len(ps) : ps[q].played /\ q \notin names
                                           /\ ps[q].fantasyPoints = Undefined
               /\ \E q \in 1..Len(ps) : ~ps[q].played /\ Points(ps[q]) = 30
               /\ \E n \in names : Points(ps[n]) = 30
               /\ \E n \in names : Points(ps[n]) = 10

\* the invocations a step adds to those in flight
Entered == {v \in BagToSet(inv') : CopiesIn(v, inv') > CopiesIn(v, inv)}

(* C10: every invocation calls the limiter exactly once, as its first step, *)
(* before the validation: an allowed invocation is recorded against the     *)
(* budget whether or not its text is valid, a denied one returns the        *)
(* rate-limit result whether or not its text is valid; the validate         *)
(* predicate, and every later step of an invocation, leaves the limiter     *)
(* alone.                                                                   *)
C10_LimiterFirst ==
    [][ /\ \A v \in BagToSet(inv') :
              /\ v.trace # <<>>
              /\ v.trace[1].op = "checkLimit"
              /\ Cardinality(At(v.trace, "checkLimit")) = 1
        /\ BagCardinality(inv') > BagCardinality(inv) =>
              \A v \in Entered :
                  /\ v.trace[1].allowed =>
                        /\ limiter'.count >= 1
                        /\ limiter'.windowStart = limiter.windowStart
                              => limiter'.count = limiter.count + 1
                        /\ limiter'.windowStart # limiter.windowStart
                              => (limiter'.count = 1 /\ limiter'.windowStart = now)
                  /\ ~v.trace[1].allowed =>
                        /\ v.result = RateLimitResult
                        /\ limiter'.count = RateLimitMax
        /\ BagCardinality(inv') <= BagCardinality(inv) => limiter' = limiter
      ]_vars

C10_Witness ==
    \E v, w \in InFlight :
        /\ v.pc = "returned"
        /\ RejectedText(v)
        /\ Denied(v)
        /\ v.result = RateLimitResult
        /\ limiter.count = RateLimitMax
        /\ w.pc = "awaitFetch"

====
